---- MODULE Spec2Model ----
(***************************************************************************)
(* Model of the curriculum-document extraction pipeline of teacherplanai   *)
(* (services/geminiService: sanitizeText, parsePageRange,                  *)
(* extractPdfPagesByIndices, analyzeChunk, parseStandardsAndGeneratePlan). *)
(*                                                                         *)
(* A JavaScript string is a sequence of UTF-16 code units; here it is a    *)
(* sequence of tokens, one token per code unit.  ASCII code units stand    *)
(* for themselves; the others are written in Latin letters:                *)
(*   "MIDDOT"  U+00B7 middle dot          "HWDOT"  U+FF65 halfwidth dot    *)
(*   "IDSP"    U+3000 ideographic space   "ae_jamo" U+1162 jungseong AE    *)
(*   "a" U+C544, "da" U+B2E4, "im" U+C784, "eum" U+C74C, "ham" U+D568      *)
(*   and every other romanised syllable ("seong", "chwi", ...) is the      *)
(*   Hangul syllable of that reading.                                      *)
(***************************************************************************)
EXTENDS Integers, Sequences, FiniteSets, TLC

(***************************************************************************)
(* Bounds of the model.                                                    *)
(***************************************************************************)
\* longest range expression enumerated for parsePageRange
MaxRangeLen == 4
\* largest page count enumerated for parsePageRange
MaxTotalPages == 3
\* largest page index of the index lists enumerated for the chunking
MaxPageIndex == 6
\* longest candidate list enumerated for the consolidation
MaxCands == 2
\* largest page count of the uploaded document in a pipeline run
MaxDocPages == 5
\* latest reading of the clock (Date.now()) when the records are built
MaxNow == 1
\* longest text enumerated for sanitizeText
MaxTextLen == 4
\* most analyses started from the component
MaxRuns == 2

(***************************************************************************)
(* Program constants.                                                      *)
(***************************************************************************)
CHUNK_SIZE == 3
\* stdText.length < 10
MinStdLen == 10
\* cleanBody.length < 5
MinBodyLen == 5

(***************************************************************************)
(* String helpers (String.prototype.trim, replace, includes).              *)
(***************************************************************************)
\* \s of a JavaScript regular expression (U+3000 is white space in \s)
Whitespace == {" ", "IDSP"}

IsWs(c) == c \in Whitespace

RECURSIVE DropLeadingWs(_)
DropLeadingWs(s) ==
  IF s # <<>> /\ IsWs(Head(s)) THEN DropLeadingWs(Tail(s)) ELSE s

RECURSIVE DropTrailingWs(_)
DropTrailingWs(s) ==
  IF s # <<>> /\ IsWs(s[Len(s)]) THEN DropTrailingWs(SubSeq(s, 1, Len(s) - 1)) ELSE s

\* String.prototype.trim
Trim(s) == DropTrailingWs(DropLeadingWs(s))

\* s.replace(/\s+/g, '') and s.replace(/[\s\u3000]+/g, '')
StripWs(s) == SelectSeq(s, LAMBDA c : ~IsWs(c))

\* s.includes(sub)
Includes(s, sub) ==
  \E i \in 0..(Len(s) - Len(sub)) : SubSeq(s, i + 1, i + Len(sub)) = sub

\* s.replace(/<pat>/g, <<rep>>) for a literal pattern
RECURSIVE ReplaceAll(_, _, _)
ReplaceAll(s, pat, rep) ==
  IF s = <<>> THEN <<>>
  ELSE IF Len(s) >= Len(pat) /\ SubSeq(s, 1, Len(pat)) = pat
       THEN rep \o ReplaceAll(SubSeq(s, Len(pat) + 1, Len(s)), pat, rep)
       ELSE <<Head(s)>> \o ReplaceAll(Tail(s), pat, rep)

\* an absent (undefined) field of a loosely typed record
Undefined == <<"undefined">>

\* s.replace(/<pat>/, <<rep>>): the first match only
RECURSIVE ReplaceFirst(_, _, _)
ReplaceFirst(s, pat, rep) ==
  IF s = <<>> THEN <<>>
  ELSE IF Len(s) >= Len(pat) /\ SubSeq(s, 1, Len(pat)) = pat
       THEN rep \o SubSeq(s, Len(pat) + 1, Len(s))
       ELSE <<Head(s)>> \o ReplaceFirst(Tail(s), pat, rep)

(***************************************************************************)
(* sanitizeText                                                            *)
(***************************************************************************)
\* the three replacements without the g flag
sanitizeFirstMatch(text) ==
  IF text = Undefined \/ text = <<>> THEN <<>>
  ELSE ReplaceFirst(ReplaceFirst(ReplaceFirst(text, <<"a", "ae_jamo">>, <<"MIDDOT">>),
                                 <<"HWDOT">>, <<"MIDDOT">>),
                    <<"HWDOT">>, <<"MIDDOT">>)

sanitizeText(text) ==
  IF text = Undefined \/ text = <<>> THEN <<>>
  ELSE ReplaceAll(ReplaceAll(ReplaceAll(text, <<"a", "ae_jamo">>, <<"MIDDOT">>),
                             <<"HWDOT">>, <<"MIDDOT">>),
                  <<"HWDOT">>, <<"MIDDOT">>)

(***************************************************************************)
(* parsePageRange                                                          *)
(***************************************************************************)
Digits == <<"0", "1", "2", "3", "4", "5", "6", "7", "8", "9">>

IsDigit(c) == \E d \in 1..10 : Digits[d] = c

DigitVal(c) == (CHOOSE d \in 1..10 : Digits[d] = c) - 1

\* value of the longest run of decimal digits at the head of s, read after acc
RECURSIVE DigitRun(_, _)
DigitRun(s, acc) ==
  IF s # <<>> /\ IsDigit(Head(s)) THEN DigitRun(Tail(s), 10 * acc + DigitVal(Head(s)))
  ELSE acc

\* parseInt(s, 10): leading white space, an optional sign, then decimal digits;
\* NaN when no digit follows
parseInt(s) ==
  LET t == DropLeadingWs(s)
      signed == t # <<>> /\ Head(t) \in {"+", "-"}
      u == IF signed THEN Tail(t) ELSE t
  IN IF u = <<>> \/ ~IsDigit(Head(u)) THEN [nan |-> TRUE, val |-> 0]
     ELSE [nan |-> FALSE,
           val |-> IF signed /\ Head(t) = "-" THEN 0 - DigitRun(u, 0) ELSE DigitRun(u, 0)]

\* rangeStr.split(/,|\s+/): the pieces between commas and runs of white space
RECURSIVE SplitCommaWs(_, _)
SplitCommaWs(s, cur) ==
  IF s = <<>> THEN <<cur>>
  ELSE IF Head(s) = "," THEN <<cur>> \o SplitCommaWs(Tail(s), <<>>)
  ELSE IF IsWs(Head(s)) THEN <<cur>> \o SplitCommaWs(DropLeadingWs(s), <<>>)
  ELSE SplitCommaWs(Tail(s), Append(cur, Head(s)))

\* trimmed.split('-')
RECURSIVE SplitDash(_, _)
SplitDash(s, cur) ==
  IF s = <<>> THEN <<cur>>
  ELSE IF Head(s) = "-" THEN <<cur>> \o SplitDash(Tail(s), <<>>)
  ELSE SplitDash(Tail(s), Append(cur, Head(s)))

InSeq(x, s) == \E i \in DOMAIN s : s[i] = x

\* Set.prototype.add on a Set kept in insertion order
SetAdd(pages, p) == IF InSeq(p, pages) THEN pages ELSE Append(pages, p)

Max(a, b) == IF a >= b THEN a ELSE b
Min(a, b) == IF a <= b THEN a ELSE b

\* the loop with `i < e` for its test: the last page of the range left out
RECURSIVE AddRangeExclusive(_, _, _)
AddRangeExclusive(pages, s, e) ==
  IF s >= e THEN pages ELSE AddRangeExclusive(SetAdd(pages, s - 1), s + 1, e)

\* for (let i = s; i <= e; i++) pages.add(i - 1)
RECURSIVE AddRange(_, _, _)
AddRange(pages, s, e) ==
  IF s > e THEN pages ELSE AddRange(SetAdd(pages, s - 1), s + 1, e)

\* the loop body with a single page number brought into 1..totalPages instead
\* of being skipped
AddPartClamped(pages, part, totalPages) ==
  LET trimmed == Trim(part)
  IN IF trimmed = <<>> THEN pages
     ELSE IF InSeq("-", trimmed)
     THEN LET pieces == SplitDash(trimmed, <<>>)
              start == parseInt(pieces[1])
              end == parseInt(pieces[2])
          IN IF ~start.nan /\ ~end.nan
             THEN AddRange(pages,
                           Max(1, Min(start.val, end.val)),
                           Min(totalPages, Max(start.val, end.val)))
             ELSE pages
     ELSE LET page == parseInt(trimmed)
          IN IF ~page.nan /\ totalPages >= 1
             THEN SetAdd(pages, Max(1, Min(totalPages, page.val)) - 1)
             ELSE pages

\* the body of the loop over the parts, for one part
AddPart(pages, part, totalPages) ==
  LET trimmed == Trim(part)
  IN IF trimmed = <<>> THEN pages
     ELSE IF InSeq("-", trimmed)
     THEN LET pieces == SplitDash(trimmed, <<>>)
              start == parseInt(pieces[1])
              end == parseInt(pieces[2])
          IN IF ~start.nan /\ ~end.nan
             THEN AddRange(pages,
                           Max(1, Min(start.val, end.val)),
                           Min(totalPages, Max(start.val, end.val)))
             ELSE pages
     ELSE LET page == parseInt(trimmed)
          IN IF ~page.nan /\ page.val >= 1 /\ page.val <= totalPages
             THEN SetAdd(pages, page.val - 1)
             ELSE pages

RECURSIVE AddParts(_, _, _)
AddParts(pages, parts, totalPages) ==
  IF parts = <<>> THEN pages
  ELSE AddParts(AddPart(pages, Head(parts), totalPages), Tail(parts), totalPages)

\* the pages in the order the Set received them (the sort left out)
KeepInsertionOrder(pages) == pages

\* Array.from(pages).sort((a, b) => a - b)
SortAscending(pages) == SortSeq(pages, LAMBDA a, b : a < b)

parsePageRange(rangeStr, totalPages) ==
  SortAscending(AddParts(<<>>, SplitCommaWs(rangeStr, <<>>), totalPages))

(***************************************************************************)
(* The deduplication and filtering loop of parseStandardsAndGeneratePlan.  *)
(* An item is a record of the five string fields of the response schema;   *)
(* a field the service left out is Undefined.                              *)
(***************************************************************************)
\* item.standard || ''
OrEmpty(field) == IF field = Undefined THEN <<>> ELSE field

\* stdText.replace(/^[-<middle dot>*]\s*/, '')
StripLeadingMarker(s) ==
  IF s # <<>> /\ Head(s) \in {"-", "MIDDOT", "*"} THEN DropLeadingWs(Tail(s)) ELSE s

\* the index of the first "]" of s, 0 when there is none
RECURSIVE FirstClose(_, _)
FirstClose(s, i) ==
  IF i > Len(s) THEN 0 ELSE IF s[i] = "]" THEN i ELSE FirstClose(s, i + 1)

\* the length of the match of /\[[^\]]+\]/ at the head of s, 0 when none
CodeAtHead(s) ==
  IF s # <<>> /\ Head(s) = "[" /\ FirstClose(s, 2) >= 3 THEN FirstClose(s, 2) ELSE 0

\* /\[[^\]]+\]/.test(s)
RECURSIVE HasCode(_)
HasCode(s) ==
  IF s = <<>> THEN FALSE
  ELSE IF CodeAtHead(s) > 0 THEN TRUE
  ELSE HasCode(Tail(s))

\* s.replace(/\[[^\]]+\]/g, '')
RECURSIVE RemoveCodes(_)
RemoveCodes(s) ==
  IF s = <<>> THEN <<>>
  ELSE IF CodeAtHead(s) > 0 THEN RemoveCodes(SubSeq(s, CodeAtHead(s) + 1, Len(s)))
  ELSE <<Head(s)>> \o RemoveCodes(Tail(s))

headers ==
  { <<"seong", "chwi", "gi", "jun">>, <<"nae", "yong", "che", "gye">>,
    <<"yeong", "yeok">>, <<"dan", "won", "myeong">>,
    <<"pyeong", "ga", "yo", "so">>, <<"gyo", "yuk", "gwa", "jeong">>,
    <<"haek", "sim", "a", "i", "di", "eo">>, <<"dan", "won">>,
    <<"gu", "bun">>, <<"sun", "seo">>, <<"si", "gi">>, <<"cha", "si">> }

\* the literal of cleanBody.includes(...): "standard code"
StandardCodeWord == <<"seong", "chwi", "gi", "jun", "ko", "deu">>

\* stdText after the trim and the removal of one leading marker
CleanStd(item) == StripLeadingMarker(Trim(OrEmpty(item.standard)))

\* bodyText: stdText without its bracketed codes, trimmed
BodyText(item) == Trim(RemoveCodes(CleanStd(item)))

\* cleanBody: bodyText without white space (the deduplication key)
CleanBody(item) == StripWs(BodyText(item))

\* /[da.?]$/.test(bodyText)
EndsWithDa(bodyText) == bodyText # <<>> /\ bodyText[Len(bodyText)] \in {"da", ".", "?"}

\* /[im eum ham]$/.test(bodyText)
EndsWithNoun(bodyText) == bodyText # <<>> /\ bodyText[Len(bodyText)] \in {"im", "eum", "ham"}

\* the length taken before the leading marker is removed
TooShortBeforeCleanup(item) == Len(Trim(OrEmpty(item.standard))) < MinStdLen

\* if (!stdText || stdText.length < 10) continue
TooShort(item) == Len(CleanStd(item)) < MinStdLen

\* headers.some(h => cleanBody === h || cleanBody.includes(<standard code>))
IsHeader(item) ==
  LET cleanBody == CleanBody(item)
  IN \E h \in headers : cleanBody = h \/ Includes(cleanBody, StandardCodeWord)

\* the strict rule the loop once had: no code and no accepted ending
IsFragmentStrict(item) ==
  /\ ~HasCode(CleanStd(item))
  /\ ~EndsWithDa(BodyText(item))
  /\ ~EndsWithNoun(BodyText(item))

\* no code, no accepted ending, and a body of fewer than 5 characters
IsFragment(item) ==
  LET bodyText == BodyText(item)
  IN /\ ~HasCode(CleanStd(item))
     /\ ~EndsWithDa(bodyText)
     /\ ~EndsWithNoun(bodyText)
     /\ Len(StripWs(bodyText)) < MinBodyLen

\* item.unit && item.unit.replace(/\s+/g, '') === cleanBody
IsUnitEcho(item) ==
  /\ item.unit # Undefined
  /\ item.unit # <<>>
  /\ StripWs(item.unit) = CleanBody(item)

\* the item reaches the deduplication step (none of the `continue`s is taken)
PassesFilters(item) ==
  ~TooShort(item) /\ ~IsHeader(item) /\ ~IsFragment(item) /\ ~IsUnitEcho(item)

\* the first record of a key is always kept
KeepFirstSeen(existing, item) == FALSE

\* a coded candidate replaces the record of its key, coded or not
ReplaceWheneverCoded(existing, item) == HasCode(CleanStd(item))

\* if (!existingHasCode && hasCode) finalItems[index] = item
ReplaceExisting(existing, item) ==
  ~HasCode(OrEmpty(existing.standard)) /\ HasCode(CleanStd(item))

\* one iteration of the loop: st = [finalItems, bodyMap]
DedupStep(st, item) ==
  LET cleanBody == CleanBody(item)
  IN IF ~PassesFilters(item) THEN st
     ELSE IF cleanBody \in DOMAIN st.bodyMap
     THEN LET index == st.bodyMap[cleanBody]
          IN IF ReplaceExisting(st.finalItems[index], item)
             THEN [st EXCEPT !.finalItems[index] = item]
             ELSE st
     ELSE [finalItems |-> Append(st.finalItems, item),
           bodyMap |-> [k \in DOMAIN st.bodyMap \cup {cleanBody} |->
                          IF k = cleanBody THEN Len(st.finalItems) + 1
                          ELSE st.bodyMap[k]]]

RECURSIVE DedupLoop(_, _)
DedupLoop(st, items) ==
  IF items = <<>> THEN st ELSE DedupLoop(DedupStep(st, Head(items)), Tail(items))

\* finalItems after the loop over allItems
Deduplicate(allItems) ==
  DedupLoop([finalItems |-> <<>>, bodyMap |-> <<>>], allItems).finalItems

\* the map callback sanitizing the standard alone
FinalizeStandardOnly(item, idx, now) ==
  [unit |-> item.unit,
   standard |-> sanitizeText(item.standard),
   element |-> item.element,
   teachingMethod |-> item.teachingMethod,
   notes |-> item.notes,
   id |-> <<"file-gen", now, idx>>]

\* one element of finalItems.map(...): sanitized fields and the generated id
\* `file-gen-${Date.now()}-${idx}` (idx is 0-based)
Finalize(item, idx, now) ==
  [unit |-> sanitizeText(item.unit),
   standard |-> sanitizeText(item.standard),
   element |-> sanitizeText(item.element),
   teachingMethod |-> sanitizeText(item.teachingMethod),
   notes |-> sanitizeText(item.notes),
   id |-> <<"file-gen", now, idx>>]

\* the records built from the last record kept to the first
FinalizeAllReversed(finalItems, now) ==
  [p \in 1..Len(finalItems) |->
     [unit |-> sanitizeText(finalItems[Len(finalItems) + 1 - p].unit),
      standard |-> sanitizeText(finalItems[Len(finalItems) + 1 - p].standard),
      element |-> sanitizeText(finalItems[Len(finalItems) + 1 - p].element),
      teachingMethod |-> sanitizeText(finalItems[Len(finalItems) + 1 - p].teachingMethod),
      notes |-> sanitizeText(finalItems[Len(finalItems) + 1 - p].notes),
      id |-> <<"file-gen", now, p - 1>>]]

FinalizeAll(finalItems, now) ==
  [p \in 1..Len(finalItems) |-> Finalize(finalItems[p], p - 1, now)]

\* the five schema fields of a returned record, as a candidate again
AsCandidate(rec) ==
  [unit |-> rec.unit, standard |-> rec.standard, element |-> rec.element,
   teachingMethod |-> rec.teachingMethod, notes |-> rec.notes]

(***************************************************************************)
(* The candidate records the extraction service is taken to return.        *)
(***************************************************************************)
\* "[9su01-01]"
Code9 == <<"[", "9", "su", "0", "1", "-", "0", "1", "]">>
\* a code of ten code units, "[10su01-01]"
Code10 == <<"[", "1", "0", "su", "0", "1", "-", "0", "1", "]">>
\* "jisubeopchigeul ihaehanda." (the exponent laws are understood)
Law == <<"ji", "su", "beop", "chik", "eul", " ", "i", "hae", "han", "da", ".">>
\* the same sentence with a halfwidth / a canonical middle dot inside
LawHw == <<"ji", "su", "HWDOT", "beop", "chik", "eul", " ", "i", "hae", "han", "da">>
LawMd == <<"ji", "su", "MIDDOT", "beop", "chik", "eul", " ", "i", "hae", "han", "da">>
\* ten code units, the first a halfwidth middle dot
HwLead == <<"HWDOT", "ji", "su", "beop", "chik", "eul", "i", "hae", "han", "da">>
\* ten code units holding the two-unit artifact
Artifact == <<"ji", "su", "a", "ae_jamo", "beop", "chik", "i", "hae", "han", "da">>
\* "ilchabangjeongsigui puri" (solving linear equations): nine code units
Equation == <<"il", "cha", "bang", "jeong", "sik", "ui", " ", "pul", "i">>
\* a noun phrase of twelve code units
NounPhrase == Equation \o <<" ", "bang", "beop">>
\* ten code units, four of them not white space, no accepted ending
Fragment == <<"ham", "su", " ", " ", " ", " ", " ", " ", "ui", "tteut">>
\* seven code units: a code and a sentence ending
ShortCoded == <<"[", "x", "]", " ", "han", "da", ".">>

Standards ==
  { Code9 \o <<" ">> \o Law,           \* coded sentence
    Law,                                \* the same sentence without its code
    <<"-", " ">> \o Law,               \* behind a dash marker
    <<" ">> \o Code9 \o Law \o <<" ">>, \* the coded sentence, other spacing
    LawHw, LawMd, HwLead, Artifact,
    Equation, NounPhrase, Fragment,
    ShortCoded,                         \* short, with a code and an ending
    <<"-", " ">> \o Equation,          \* nine code units behind a dash marker
    Code9 \o <<" ", "dan", "won">>,    \* a code and a header term
    Code9 \o <<" ", "ham", "su">>,     \* a code and a two-unit body
    Code10,                             \* nothing but a code
    StandardCodeWord \o <<" ", "mit", " ", "nae", "yong">> }

\* "suwa yeonsan" (numbers and operations)
UnitNumbers == <<"su", "wa", " ", "yeon", "san">>
\* a unit that repeats the sentence Law
UnitEcho == <<"ji", "su", "beop", "chik", "eul", "i", "hae", "han", "da", ".">>

Item(unit, standard) ==
  [unit |-> unit, standard |-> standard,
   element |-> <<"gae", "nyeom", "HWDOT", "won", "ri">>,
   teachingMethod |-> Undefined,
   notes |-> <<>>]

Candidates ==
  { Item(UnitNumbers, s) : s \in Standards }
    \cup { Item(UnitEcho, Law), Item(UnitEcho, Code9 \o <<" ">> \o Law),
           Item(Undefined, Law), Item(UnitNumbers, Undefined) }

\* the sequences over S of length at most n
SeqsUpTo(S, n) == UNION { [1..k -> S] : k \in 0..n }

\* the candidates that pass the filters with the sentence Law for their key:
\* two without a code, two with one
SameKey ==
  { Item(UnitNumbers, Law), Item(UnitNumbers, <<"-", " ">> \o Law),
    Item(UnitNumbers, Code9 \o <<" ">> \o Law),
    Item(UnitNumbers, <<" ">> \o Code9 \o Law \o <<" ">>) }

\* the lists of three candidates of one key
KeyCollisions == [1..3 -> SameKey]

\* ten code units, four of them not white space, with a sentence ending
FragmentDa == <<"ham", "su", " ", " ", " ", " ", " ", " ", "han", "da">>

\* lists in which a candidate of another key stands between two of one key,
\* and lists of one candidate with a short key
ExampleLists ==
  { << Item(UnitNumbers, Law), Item(UnitNumbers, NounPhrase), c >> : c \in SameKey }
    \cup { << Item(UnitNumbers, FragmentDa) >>,
           << Item(UnitNumbers, Fragment), Item(UnitNumbers, FragmentDa),
              Item(UnitNumbers, Code9 \o <<" ", "ham", "su">>) >> }

(***************************************************************************)
(* State.                                                                  *)
(***************************************************************************)
VARIABLES
  pc,                \* where the run (or the function under study) stands
  apiKey,            \* requireApiKey() finds a key
  mimeType,          \* getMimeType(file)
  pageRange,         \* the page-range expression
  docPages,          \* the page count of the document (totalPages)
  opened,            \* "unknown", "ok" or "failed": PDFDocument.load for the page count
  requestedIndices,  \* parsePageRange(pageRange, totalPages)
  chunkTasks,        \* one record per element of chunkPromises
  settled,           \* the chunks in the order in which their tasks completed
  wholeCalls,        \* whole-document generateContent calls issued
  wholeReply,        \* the answer to the whole-document call
  allItems,          \* the merged candidates: [iterable, items]
  finalItems,        \* finalItems after the deduplication loop
  result,            \* the records returned
  result2,           \* the records of a second consolidation, of result
  now,               \* Date.now() read when the records were built
  text,              \* the argument of sanitizeText
  sanitized,         \* sanitizeText(text)
  resanitized,       \* sanitizeText(sanitized)
  planData,          \* the plan data the application holds (App's `data` state)
  data,              \* the `data` prop handleUnifiedAnalysis was created with
  isAnalyzing,       \* the component's isAnalyzing state
  newPlans,          \* what planPromise settles to
  stdResult,         \* what stdPromise settles to
  extraction,        \* how the plan extraction went: "none", "failed", "succeeded"
  edited,            \* another handler changed the plan data during the analysis
  message,           \* the two lines of the alert of the last analysis
  runs               \* analyses started

\* the state of the sanitizer under study
sanitizerVars == <<text, sanitized, resanitized>>

\* the state of the FileAnalysis component and of the plan data it edits
componentVars == <<planData, data, isAnalyzing, newPlans, stdResult, extraction,
                   edited, message, runs>>

vars == <<pc, apiKey, mimeType, pageRange, docPages, opened, requestedIndices,
          chunkTasks, wholeCalls, wholeReply, allItems, finalItems, result,
          result2, now, sanitizerVars, componentVars, settled>>

\* a promise of the component: not settled, resolved to null, or to a value
Pending == [state |-> "pending", value |-> <<>>]
Null == [state |-> "null", value |-> <<>>]
Resolved(v) == [state |-> "value", value |-> v]

\* what alert() last showed: the line on the plans and the line on the levels
NoMessage == [plans |-> "none", count |-> 0, standards |-> "none"]

\* INITIAL_PLAN_DATA as far as the analysis reads and writes it
InitialPlanData(subject) ==
  [subject |-> subject, teachingPlans |-> <<>>, achievementStandards |-> "initial"]

\* no text is under study
SanitizerIdle == text = <<>> /\ sanitized = <<>> /\ resanitized = <<>>

\* the component is mounted and no analysis has run
ComponentIdle ==
  /\ planData = InitialPlanData(TRUE)
  /\ data = planData
  /\ isAnalyzing = FALSE
  /\ newPlans = Pending
  /\ stdResult = Pending
  /\ extraction = "none"
  /\ edited = FALSE
  /\ message = NoMessage
  /\ runs = 0

(***************************************************************************)
(* The extraction service and analyzeChunk.                                *)
(***************************************************************************)
\* a JSON null where an item is expected
JNull == [null |-> TRUE]

\* the arrays of items the service answers with
ResponseArrays ==
  { <<>>,
    << Item(UnitNumbers, Law) >>,
    << Item(UnitNumbers, Code9 \o <<" ">> \o Law), Item(UnitNumbers, NounPhrase) >>,
    << JNull >> }

NoReply == [kind |-> "none", items |-> <<>>]
Hung == [kind |-> "hung", items |-> <<>>]

\* what generateContent can do once called: reject (network, quota), answer
\* without text, with text that is no JSON, with a JSON array, or with JSON
\* that is no array (null, an object, a number)
Replies ==
  { [kind |-> k, items |-> <<>>] : k \in {"rejected", "notext", "nonjson", "nonarray"} }
    \cup { [kind |-> "array", items |-> a] : a \in ResponseArrays }

Iterable(items) == [iterable |-> TRUE, items |-> items]
NotIterable == [iterable |-> FALSE, items |-> <<>>]

\* the value analyzeChunk resolves to: [] from the catch and for no text,
\* otherwise whatever JSON.parse gives
analyzeChunk(reply) ==
  IF reply.kind \in {"rejected", "nonjson", "notext"} THEN Iterable(<<>>)
  ELSE IF reply.kind = "array" THEN Iterable(reply.items)
  ELSE NotIterable

\* a response that is JSON but no array of records
Malformed(reply) ==
  \/ reply.kind = "nonarray"
  \/ reply.kind = "array" /\ InSeq(JNull, reply.items)

\* the reply is a failure of the extraction call (an answer without text is
\* counted neither as a failure nor as a success)
FailedReply(reply) ==
  reply.kind \in {"rejected", "nonjson"} \/ Malformed(reply)

(***************************************************************************)
(* Slicing and chunking.                                                   *)
(***************************************************************************)
\* extractPdfPagesByIndices: null for no indices and from the catch
extractPdfPagesByIndices(pageIndices, readable) ==
  IF Len(pageIndices) = 0 THEN "null"
  ELSE IF readable THEN "base64" ELSE "null"

\* the loop stopping before a last chunk that would not be full
ChunkWithoutRemainder(indices) ==
  [k \in 1..(Len(indices) \div CHUNK_SIZE) |->
     SubSeq(indices, CHUNK_SIZE * (k - 1) + 1, CHUNK_SIZE * k)]

\* for (i = 0; i < length; i += CHUNK_SIZE) push(slice(i, i + CHUNK_SIZE))
ChunkIndices(indices) ==
  [k \in 1..((Len(indices) + CHUNK_SIZE - 1) \div CHUNK_SIZE) |->
     SubSeq(indices, CHUNK_SIZE * (k - 1) + 1, Min(CHUNK_SIZE * k, Len(indices)))]

\* a chunk task that calls the service without waiting for its slice
NewTaskCallingAtOnce(indices) ==
  [indices |-> indices, state |-> "extracting", sliced |-> "pending", calls |-> 1,
   reply |-> NoReply, value |-> Iterable(<<>>)]

\* a chunk task right after chunkedIndices.map(async ...): awaiting its slice
NewTask(indices) ==
  [indices |-> indices, state |-> "slicing", sliced |-> "pending", calls |-> 0,
   reply |-> NoReply, value |-> Iterable(<<>>)]

\* the run goes on as soon as one task has settled
AnySettled == \E i \in DOMAIN chunkTasks : chunkTasks[i].state = "done"

\* await Promise.all(chunkPromises): every task has settled
AllSettled == \A i \in DOMAIN chunkTasks : chunkTasks[i].state = "done"

\* the results pushed as the tasks complete: those of the first n to complete
RECURSIVE PushAllAsSettled(_, _)
PushAllAsSettled(tasks, n) ==
  IF n = 0 \/ n > Len(settled) THEN <<>>
  ELSE PushAllAsSettled(tasks, n - 1) \o tasks[settled[n]].value.items

\* results.forEach(res => allItems.push(...res)) up to chunk n
RECURSIVE PushAll(_, _)
PushAll(tasks, n) ==
  IF n = 0 THEN <<>> ELSE PushAll(tasks, n - 1) \o tasks[n].value.items

\* the spread of a value that is not iterable throws
PushThrows == \E i \in DOMAIN chunkTasks : ~chunkTasks[i].value.iterable

\* `for (const item of allItems)` and `item.standard` throw a TypeError
ConsolidationThrows(items) ==
  ~items.iterable \/ \E i \in DOMAIN items.items : items.items[i] = JNull

(***************************************************************************)
(* parseStandardsAndGeneratePlan: one run.                                 *)
(***************************************************************************)
MimeTypes == {"application/pdf", "text/plain", "image/png"}

\* the page-range expressions of the runs
RunRanges ==
  { <<>>, <<" ">>, <<"x">>, <<"9">>, <<"2">>, <<"1", "-", "4">>, <<"1", "-", "9">> }

DocPageCounts == {2, MaxDocPages}

EmptyItems == Iterable(<<>>)

Init ==
  /\ pc = "start"
  /\ apiKey \in BOOLEAN
  /\ mimeType \in MimeTypes
  /\ pageRange \in RunRanges
  /\ docPages \in DocPageCounts
  /\ opened = "unknown"
  /\ requestedIndices = <<>>
  /\ chunkTasks = <<>>
  /\ settled = <<>>
  /\ wholeCalls = 0
  /\ wholeReply = NoReply
  /\ allItems = EmptyItems
  /\ finalItems = <<>>
  /\ result = <<>>
  /\ result2 = <<>>
  /\ now = 0
  /\ SanitizerIdle
  /\ ComponentIdle

\* mimeType === 'application/pdf' && pageRange && pageRange.trim()
TakesChunkedPath == mimeType = "application/pdf" /\ Trim(pageRange) # <<>>

\* if (!apiKey) throw new Error("API Key missing")
ApiKeyMissing ==
  /\ pc = "start"
  /\ ~apiKey
  /\ pc' = "raised"
  /\ UNCHANGED <<apiKey, mimeType, pageRange, docPages, opened, requestedIndices,
                 chunkTasks, wholeCalls, wholeReply, allItems, finalItems, result,
                 result2, now,
                 sanitizerVars, componentVars, settled>>

EnterChunked ==
  /\ pc = "start"
  /\ apiKey
  /\ TakesChunkedPath
  /\ pc' = "load"
  /\ UNCHANGED <<apiKey, mimeType, pageRange, docPages, opened, requestedIndices,
                 chunkTasks, wholeCalls, wholeReply, allItems, finalItems, result,
                 result2, now,
                 sanitizerVars, componentVars, settled>>

EnterSingle ==
  /\ pc = "start"
  /\ apiKey
  /\ ~TakesChunkedPath
  /\ pc' = "single_read"
  /\ UNCHANGED <<apiKey, mimeType, pageRange, docPages, opened, requestedIndices,
                 chunkTasks, wholeCalls, wholeReply, allItems, finalItems, result,
                 result2, now,
                 sanitizerVars, componentVars, settled>>

\* file.arrayBuffer() or PDFDocument.load throws: the catch starts the fallback
LoadFails ==
  /\ pc = "load"
  /\ opened' = "failed"
  /\ pc' = "fallback_read"
  /\ UNCHANGED <<apiKey, mimeType, pageRange, docPages, requestedIndices,
                 chunkTasks, wholeCalls, wholeReply, allItems, finalItems, result,
                 result2, now,
                 sanitizerVars, componentVars, settled>>

\* no page requested: the whole document is sent instead
NoPagesFallsBack == "fallback_read"

\* where the run goes when the range names no page of the document
NoPagesExit == "done"

\* the document opens: the range is parsed, and either no page is requested
\* (return []) or the chunk tasks are all started and the run awaits them
LoadPdf ==
  /\ pc = "load"
  /\ opened' = "ok"
  /\ requestedIndices' = parsePageRange(pageRange, docPages)
  /\ IF Len(requestedIndices') = 0
     THEN /\ pc' = NoPagesExit
          /\ chunkTasks' = chunkTasks
     ELSE /\ pc' = "join"
          /\ chunkTasks' = [k \in DOMAIN ChunkIndices(requestedIndices') |->
                              NewTask(ChunkIndices(requestedIndices')[k])]
  /\ UNCHANGED <<apiKey, mimeType, pageRange, docPages, wholeCalls, wholeReply,
                 allItems, finalItems, result, result2, now,
                 sanitizerVars, componentVars, settled>>

\* analyzeChunk is called although the slice is null
CallDespiteNullSlice(task) ==
  [task EXCEPT !.sliced = "null", !.state = "extracting", !.calls = @ + 1]

\* the task of chunk i after its slice failed: `if (!slicedBase64) return []`
AfterNullSlice(task) ==
  [task EXCEPT !.sliced = "null", !.state = "done", !.value = Iterable(<<>>)]

\* the slice of chunk i is there (or null); with a slice analyzeChunk is called
SliceDone(i, readable) ==
  /\ pc = "join"
  /\ i \in DOMAIN chunkTasks
  /\ chunkTasks[i].state = "slicing"
  /\ IF extractPdfPagesByIndices(chunkTasks[i].indices, readable) = "null"
     THEN /\ chunkTasks' = [chunkTasks EXCEPT ![i] = AfterNullSlice(@)]
          /\ settled' = Append(settled, i)
          /\ pc' = pc
     ELSE /\ chunkTasks' = [chunkTasks EXCEPT ![i].sliced = "base64",
                                                ![i].state = "extracting",
                                                ![i].calls = @ + 1]
          /\ settled' = settled
          /\ pc' = pc
  /\ UNCHANGED <<apiKey, mimeType, pageRange, docPages, opened, requestedIndices,
                 wholeCalls, wholeReply, allItems, finalItems, result, result2, now,
                 sanitizerVars, componentVars>>

SliceOk == \E i \in DOMAIN chunkTasks : SliceDone(i, TRUE)

SliceFails == \E i \in DOMAIN chunkTasks : SliceDone(i, FALSE)

\* the service answers the call of chunk i (or the call fails)
ChunkReplies ==
  \E i \in DOMAIN chunkTasks, reply \in Replies :
    /\ pc = "join"
    /\ chunkTasks[i].state = "extracting"
    /\ chunkTasks' = [chunkTasks EXCEPT ![i].state = "done",
                                         ![i].reply = reply,
                                         ![i].value = analyzeChunk(reply)]
    /\ settled' = Append(settled, i)
    /\ UNCHANGED <<pc, apiKey, mimeType, pageRange, docPages, opened,
                   requestedIndices, wholeCalls, wholeReply, allItems, finalItems,
                   result, result2, now,
                 sanitizerVars, componentVars>>

\* the service never answers the call of chunk i: no timeout is set on it
ChunkHangs ==
  \E i \in DOMAIN chunkTasks :
    /\ pc = "join"
    /\ chunkTasks[i].state = "extracting"
    /\ chunkTasks' = [chunkTasks EXCEPT ![i].state = "hung", ![i].reply = Hung]
    /\ UNCHANGED <<pc, apiKey, mimeType, pageRange, docPages, opened,
                   requestedIndices, wholeCalls, wholeReply, allItems, finalItems,
                   result, result2, now,
                 sanitizerVars, componentVars, settled>>

\* Promise.all resolves and the results are pushed in chunk order
Join ==
  /\ pc = "join"
  /\ AllSettled
  /\ ~PushThrows
  /\ allItems' = Iterable(PushAll(chunkTasks, Len(chunkTasks)))
  /\ pc' = "consolidate"
  /\ UNCHANGED <<apiKey, mimeType, pageRange, docPages, opened, requestedIndices,
                 chunkTasks, wholeCalls, wholeReply, finalItems, result, result2, now,
                 sanitizerVars, componentVars, settled>>

\* the push of a result that is not iterable throws inside the try: the catch
\* starts the fallback
JoinThrows ==
  /\ pc = "join"
  /\ AllSettled
  /\ PushThrows
  /\ allItems' = Iterable(PushAll(chunkTasks,
                   (CHOOSE i \in DOMAIN chunkTasks :
                      /\ ~chunkTasks[i].value.iterable
                      /\ \A j \in 1..(i - 1) : chunkTasks[j].value.iterable) - 1))
  /\ pc' = "fallback_read"
  /\ UNCHANGED <<apiKey, mimeType, pageRange, docPages, opened, requestedIndices,
                 chunkTasks, wholeCalls, wholeReply, finalItems, result, result2, now,
                 sanitizerVars, componentVars, settled>>

\* the rest of the state when a file read settles
ReadFrame ==
  UNCHANGED <<apiKey, mimeType, pageRange, docPages, opened, requestedIndices,
              chunkTasks, wholeReply, allItems, finalItems, result, result2, now,
                 sanitizerVars, componentVars, settled>>

\* the rest of the state when a whole-document call settles
CallFrame ==
  UNCHANGED <<apiKey, mimeType, pageRange, docPages, opened, requestedIndices,
              chunkTasks, wholeCalls, finalItems, result, result2, now,
                 sanitizerVars, componentVars, settled>>

\* a failed fallback call is tried again
RetryFailedFallback(reply) ==
  IF FailedReply(reply) THEN "fallback_read" ELSE "consolidate"

\* where the run goes after the answer to the fallback call
AfterFallbackReply(reply) == "consolidate"

\* fileToBase64 resolves in the catch: the one fallback call is issued
FallbackEncode ==
  /\ pc = "fallback_read"
  /\ wholeCalls' = wholeCalls + 1
  /\ pc' = "fallback_call"
  /\ ReadFrame

\* reader.onerror = reject: the rejection leaves the function
FallbackEncodeFails ==
  /\ pc = "fallback_read"
  /\ pc' = "raised"
  /\ wholeCalls' = wholeCalls
  /\ ReadFrame

\* allItems = await analyzeChunk(ai, chunkContent, subject, grade, range)
FallbackReplies ==
  \E reply \in Replies :
    /\ pc = "fallback_call"
    /\ wholeReply = NoReply
    /\ wholeReply' = reply
    /\ allItems' = analyzeChunk(reply)
    /\ pc' = AfterFallbackReply(reply)
    /\ CallFrame

\* the fallback call is never answered
FallbackHangs ==
  /\ pc = "fallback_call"
  /\ wholeReply = NoReply
  /\ wholeReply' = Hung
  /\ UNCHANGED <<pc, allItems>>
  /\ CallFrame

\* readTextFile / fileToBase64 resolves: the single call is issued
SingleRead ==
  /\ pc = "single_read"
  /\ wholeCalls' = wholeCalls + 1
  /\ pc' = "single_call"
  /\ ReadFrame

SingleReadFails ==
  /\ pc = "single_read"
  /\ pc' = "raised"
  /\ wholeCalls' = wholeCalls
  /\ ReadFrame

\* allItems = await analyzeChunk(ai, contents, subject, grade, range)
SingleReplies ==
  \E reply \in Replies :
    /\ pc = "single_call"
    /\ wholeReply = NoReply
    /\ wholeReply' = reply
    /\ allItems' = analyzeChunk(reply)
    /\ pc' = "consolidate"
    /\ CallFrame

\* the single call is never answered
SingleHangs ==
  /\ pc = "single_call"
  /\ wholeReply = NoReply
  /\ wholeReply' = Hung
  /\ UNCHANGED <<pc, allItems>>
  /\ CallFrame

\* finalItems.map(...) over the result of the deduplication loop
Consolidated(items, clock) == FinalizeAll(Deduplicate(items), clock)

\* the loop and the final map, with the clock read for the ids
Consolidate ==
  /\ pc = "consolidate"
  /\ ~ConsolidationThrows(allItems)
  /\ finalItems' = Deduplicate(allItems.items)
  /\ \E clock \in 0..MaxNow :
       /\ now' = clock
       /\ result' = FinalizeAll(finalItems', clock)
  /\ pc' = "done"
  /\ UNCHANGED <<apiKey, mimeType, pageRange, docPages, opened, requestedIndices,
                 chunkTasks, wholeCalls, wholeReply, allItems, result2,
                 sanitizerVars, componentVars, settled>>

\* a TypeError in the loop leaves the function
ConsolidateThrows ==
  /\ pc = "consolidate"
  /\ ConsolidationThrows(allItems)
  /\ pc' = "raised"
  /\ UNCHANGED <<apiKey, mimeType, pageRange, docPages, opened, requestedIndices,
                 chunkTasks, wholeCalls, wholeReply, allItems, finalItems, result,
                 result2, now,
                 sanitizerVars, componentVars, settled>>

Next ==
  \/ ApiKeyMissing
  \/ EnterChunked
  \/ EnterSingle
  \/ LoadFails
  \/ LoadPdf
  \/ SliceOk
  \/ SliceFails
  \/ ChunkReplies
  \/ ChunkHangs
  \/ Join
  \/ JoinThrows
  \/ FallbackEncode
  \/ FallbackEncodeFails
  \/ FallbackReplies
  \/ FallbackHangs
  \/ SingleRead
  \/ SingleReadFails
  \/ SingleReplies
  \/ SingleHangs
  \/ Consolidate
  \/ ConsolidateThrows

Spec == Init /\ [][Next]_vars

(***************************************************************************)
(* The consolidation on its own: a candidate list is consolidated, and the *)
(* records returned are consolidated once more.                            *)
(***************************************************************************)
InitConsolidation ==
  /\ pc = "candidates"
  /\ allItems \in { Iterable(c) : c \in SeqsUpTo(Candidates, MaxCands) \cup KeyCollisions
                                        \cup ExampleLists }
  /\ apiKey = TRUE
  /\ mimeType = "text/plain"
  /\ pageRange = <<>>
  /\ docPages = 0
  /\ opened = "unknown"
  /\ requestedIndices = <<>>
  /\ chunkTasks = <<>>
  /\ settled = <<>>
  /\ wholeCalls = 0
  /\ wholeReply = NoReply
  /\ finalItems = <<>>
  /\ result = <<>>
  /\ result2 = <<>>
  /\ now = 0
  /\ SanitizerIdle
  /\ ComponentIdle

ConsolidateOnce ==
  /\ pc = "candidates"
  /\ finalItems' = Deduplicate(allItems.items)
  /\ \E clock \in 0..MaxNow :
       /\ now' = clock
       /\ result' = FinalizeAll(finalItems', clock)
  /\ pc' = "once"
  /\ UNCHANGED <<apiKey, mimeType, pageRange, docPages, opened, requestedIndices,
                 chunkTasks, wholeCalls, wholeReply, allItems, result2,
                 sanitizerVars, componentVars, settled>>

\* the clock does not run backwards between the two consolidations
ConsolidateAgain ==
  /\ pc = "once"
  /\ \E clock \in now..MaxNow :
       /\ now' = clock
       /\ result2' = Consolidated([p \in DOMAIN result |-> AsCandidate(result[p])], clock)
  /\ pc' = "twice"
  /\ UNCHANGED <<apiKey, mimeType, pageRange, docPages, opened, requestedIndices,
                 chunkTasks, wholeCalls, wholeReply, allItems, finalItems, result,
                 sanitizerVars, componentVars, settled>>

NextConsolidation == ConsolidateOnce \/ ConsolidateAgain

SpecConsolidation == InitConsolidation /\ [][NextConsolidation]_vars

(***************************************************************************)
(* parsePageRange on its own.                                              *)
(***************************************************************************)
RangeChars == {"0", "1", "3", "-", ",", " ", "x"}

\* "1, 3-5" (the example of the comment on parsePageRange) and "0, 99"
ExampleRanges ==
  { <<"1", ",", " ", "3", "-", "5">>, <<"0", ",", " ", "9", "9">> }

\* the page count of a document the examples are read against
ExampleDocs == {10}

InitParse ==
  /\ pc = "range"
  /\ pageRange \in SeqsUpTo(RangeChars, MaxRangeLen) \cup ExampleRanges
  /\ docPages \in 0..MaxTotalPages \cup ExampleDocs
  /\ apiKey = TRUE
  /\ mimeType = "application/pdf"
  /\ opened = "ok"
  /\ requestedIndices = <<>>
  /\ chunkTasks = <<>>
  /\ settled = <<>>
  /\ wholeCalls = 0
  /\ wholeReply = NoReply
  /\ allItems = EmptyItems
  /\ finalItems = <<>>
  /\ result = <<>>
  /\ result2 = <<>>
  /\ now = 0
  /\ SanitizerIdle
  /\ ComponentIdle

ParseRange ==
  /\ pc = "range"
  /\ requestedIndices' = parsePageRange(pageRange, docPages)
  /\ pc' = "parsed"
  /\ UNCHANGED <<apiKey, mimeType, pageRange, docPages, opened, chunkTasks,
                 wholeCalls, wholeReply, allItems, finalItems, result, result2, now,
                 sanitizerVars, componentVars, settled>>

NextParse == ParseRange

SpecParse == InitParse /\ [][NextParse]_vars

(***************************************************************************)
(* The chunking on its own: an ascending index list is cut into chunks and *)
(* the chunk tasks are created.                                            *)
(***************************************************************************)
\* the elements of a set of numbers in ascending order
RECURSIVE Ascending(_)
Ascending(S) ==
  IF S = {} THEN <<>>
  ELSE LET least == CHOOSE x \in S : \A y \in S : x <= y
       IN <<least>> \o Ascending(S \ {least})

InitChunk ==
  /\ pc = "indices"
  /\ requestedIndices \in { Ascending(S) : S \in SUBSET (0..MaxPageIndex) }
  /\ docPages = MaxPageIndex + 1
  /\ apiKey = TRUE
  /\ mimeType = "application/pdf"
  /\ pageRange = <<>>
  /\ opened = "ok"
  /\ chunkTasks = <<>>
  /\ settled = <<>>
  /\ wholeCalls = 0
  /\ wholeReply = NoReply
  /\ allItems = EmptyItems
  /\ finalItems = <<>>
  /\ result = <<>>
  /\ result2 = <<>>
  /\ now = 0
  /\ SanitizerIdle
  /\ ComponentIdle

\* the chunk loop and chunkedIndices.map(...)
ChunkPages ==
  /\ pc = "indices"
  /\ chunkTasks' = [k \in DOMAIN ChunkIndices(requestedIndices) |->
                      NewTask(ChunkIndices(requestedIndices)[k])]
  /\ pc' = "chunked"
  /\ UNCHANGED <<apiKey, mimeType, pageRange, docPages, opened, requestedIndices,
                 wholeCalls, wholeReply, allItems, finalItems, result, result2, now,
                 sanitizerVars, componentVars, settled>>

NextChunk == ChunkPages

SpecChunk == InitChunk /\ [][NextChunk]_vars

(***************************************************************************)
(* The FileAnalysis component: handleUnifiedAnalysis runs the plan         *)
(* extraction and the semester-standards task side by side and applies     *)
(* what they gave to the plan data, while the rest of the application can  *)
(* go on editing that data.                                                *)
(***************************************************************************)
\* the candidate arrays of an extraction that succeeded
PlanArrays == ResponseArrays \ { << JNull >> }

\* the alerts of the early returns
NeedFile == [plans |-> "need_file", count |-> 0, standards |-> "none"]
NeedSubject == [plans |-> "need_subject", count |-> 0, standards |-> "none"]

\* the line of the alert on the plans when nothing was appended
NoneAdded == "none_added"

\* the row addRow of the TeachingPlan tab appends
ManualRow(clock) ==
  [id |-> <<"row", clock>>, unit |-> <<>>, standard |-> <<>>, element |-> <<>>,
   teachingMethod |-> <<>>, notes |-> <<>>]

InitComponent ==
  /\ pc = "idle"
  /\ planData \in { InitialPlanData(subject) : subject \in BOOLEAN }
  /\ data = planData
  /\ isAnalyzing = FALSE
  /\ newPlans = Pending
  /\ stdResult = Pending
  /\ extraction = "none"
  /\ edited = FALSE
  /\ message = NoMessage
  /\ runs = 0
  /\ apiKey = TRUE
  /\ mimeType = "application/pdf"
  /\ pageRange = <<>>
  /\ docPages = 0
  /\ opened = "unknown"
  /\ requestedIndices = <<>>
  /\ chunkTasks = <<>>
  /\ settled = <<>>
  /\ wholeCalls = 0
  /\ wholeReply = NoReply
  /\ allItems = EmptyItems
  /\ finalItems = <<>>
  /\ result = <<>>
  /\ result2 = <<>>
  /\ now = 0
  /\ SanitizerIdle

\* the state of the runs of the service, which the component does not see
ServiceFrame ==
  UNCHANGED <<apiKey, mimeType, pageRange, docPages, opened, requestedIndices,
              chunkTasks, wholeCalls, wholeReply, allItems, finalItems, result,
              result2, now, sanitizerVars, settled>>

\* the subject is entered on the basic-information tab
EnterSubject ==
  /\ pc = "idle"
  /\ ~planData.subject
  /\ planData' = [planData EXCEPT !.subject = TRUE]
  /\ data' = planData'
  /\ UNCHANGED <<pc, isAnalyzing, newPlans, stdResult, extraction, edited, message, runs>>
  /\ ServiceFrame

\* the early returns: no file, no subject, or the confirmation declined
RefuseAnalysis ==
  \E file \in BOOLEAN, confirmed \in BOOLEAN :
    /\ pc = "idle"
    /\ ~file \/ ~data.subject \/ ~confirmed
    /\ message' = IF ~file THEN NeedFile
                  ELSE IF ~data.subject THEN NeedSubject
                  ELSE message
    /\ UNCHANGED <<pc, planData, data, isAnalyzing, newPlans, stdResult, extraction,
                   edited, runs>>
    /\ ServiceFrame

\* setIsAnalyzing(true) and the two tasks started, with the `data` of this render
StartAnalysis ==
  /\ pc = "idle"
  /\ runs < MaxRuns
  /\ data.subject
  /\ isAnalyzing' = TRUE
  /\ newPlans' = Pending
  /\ stdResult' = Pending
  /\ extraction' = "none"
  /\ edited' = FALSE
  /\ runs' = runs + 1
  /\ pc' = "analyzing"
  /\ UNCHANGED <<planData, data, message>>
  /\ ServiceFrame

\* parseStandardsAndGeneratePlan rejects: .catch(err => null)
PlanRaises ==
  /\ pc = "analyzing"
  /\ newPlans.state = "pending"
  /\ newPlans' = Null
  /\ extraction' = "raised"
  /\ UNCHANGED <<pc, planData, data, isAnalyzing, stdResult, edited, message, runs>>
  /\ ServiceFrame

\* every extraction call of the run failed: the service function returns []
PlanFails ==
  /\ pc = "analyzing"
  /\ newPlans.state = "pending"
  /\ newPlans' = Resolved(Consolidated(analyzeChunk([kind |-> "rejected", items |-> <<>>]).items, 0))
  /\ extraction' = "failed"
  /\ UNCHANGED <<pc, planData, data, isAnalyzing, stdResult, edited, message, runs>>
  /\ ServiceFrame

\* the extraction succeeded: the records of the consolidation are returned
PlanSucceeds ==
  \E a \in PlanArrays, clock \in 0..MaxNow :
    /\ pc = "analyzing"
    /\ newPlans.state = "pending"
    /\ newPlans' = Resolved(Consolidated(a, clock))
    /\ extraction' = "succeeded"
    /\ UNCHANGED <<pc, planData, data, isAnalyzing, stdResult, edited, message, runs>>
    /\ ServiceFrame

\* generateSemesterStandardsFromDomainFile rejects: .catch(err => null)
StdRejects ==
  /\ pc = "analyzing"
  /\ stdResult.state = "pending"
  /\ stdResult' = Null
  /\ UNCHANGED <<pc, planData, data, isAnalyzing, newPlans, extraction, edited,
                 message, runs>>
  /\ ServiceFrame

\* it resolves, with levels or with A, B and C all empty
StdResolves ==
  \E levels \in { <<"blank">>, <<"levels">> } :
    /\ pc = "analyzing"
    /\ stdResult.state = "pending"
    /\ stdResult' = Resolved(levels)
    /\ UNCHANGED <<pc, planData, data, isAnalyzing, newPlans, extraction, edited,
                   message, runs>>
    /\ ServiceFrame

\* while the analysis is awaited, a row is added on the TeachingPlan tab
OtherEdit ==
  \E clock \in 0..MaxNow :
    /\ pc = "analyzing"
    /\ ~edited
    /\ planData' = [planData EXCEPT !.teachingPlans = Append(@, ManualRow(clock))]
    /\ edited' = TRUE
    /\ UNCHANGED <<pc, data, isAnalyzing, newPlans, stdResult, extraction, message, runs>>
    /\ ServiceFrame

\* newPlans && newPlans.length > 0
HasNewPlans == newPlans.state = "value" /\ Len(newPlans.value) > 0

\* stdResult && (stdResult.A || stdResult.B || stdResult.C)
HasLevels == stdResult.state = "value" /\ stdResult.value = <<"levels">>

\* newData: a copy of the `data` of the render the handler was created in,
\* with the new plans appended and the levels written over
NewData ==
  [subject |-> data.subject,
   teachingPlans |-> IF HasNewPlans THEN data.teachingPlans \o newPlans.value
                     ELSE data.teachingPlans,
   achievementStandards |-> IF HasLevels THEN "analysed"
                            ELSE data.achievementStandards]

\* the continuation without its finally block: isAnalyzing is left as it is
ApplyWithoutFinally ==
  /\ pc = "analyzing"
  /\ newPlans.state # "pending"
  /\ stdResult.state # "pending"
  /\ planData' = NewData
  /\ data' = planData'
  /\ message' = [plans |-> IF HasNewPlans THEN "added" ELSE NoneAdded,
                 count |-> IF HasNewPlans THEN Len(newPlans.value) ELSE 0,
                 standards |-> IF HasLevels THEN "updated" ELSE "unchanged"]
  /\ pc' = "idle"
  /\ UNCHANGED <<isAnalyzing, newPlans, stdResult, extraction, edited, runs>>
  /\ ServiceFrame

\* after Promise.all: the message is built, onChange(newData), alert(message),
\* and setIsAnalyzing(false) in the finally; the next render hands the
\* component the new plan data
ApplyResults ==
  /\ pc = "analyzing"
  /\ newPlans.state # "pending"
  /\ stdResult.state # "pending"
  /\ planData' = NewData
  /\ data' = planData'
  /\ message' = [plans |-> IF HasNewPlans THEN "added" ELSE NoneAdded,
                 count |-> IF HasNewPlans THEN Len(newPlans.value) ELSE 0,
                 standards |-> IF HasLevels THEN "updated" ELSE "unchanged"]
  /\ isAnalyzing' = FALSE
  /\ pc' = "idle"
  /\ UNCHANGED <<newPlans, stdResult, extraction, edited, runs>>
  /\ ServiceFrame

NextComponent ==
  \/ EnterSubject
  \/ RefuseAnalysis
  \/ StartAnalysis
  \/ PlanRaises
  \/ PlanFails
  \/ PlanSucceeds
  \/ StdRejects
  \/ StdResolves
  \/ OtherEdit
  \/ ApplyResults

SpecComponent == InitComponent /\ [][NextComponent]_vars

\* the continuation of `await Promise.all` is a microtask queued when both
\* promises have settled, and the event loop runs it
SpecComponentFair == SpecComponent /\ WF_vars(ApplyResults)

(***************************************************************************)
(* sanitizeText on its own: a text is sanitized, and the outcome again.    *)
(***************************************************************************)
\* the code units of the texts: the two units of the artifact, the halfwidth
\* and the canonical middle dot, and a syllable the sanitizer leaves alone
TextUnits == {"a", "ae_jamo", "HWDOT", "MIDDOT", "ji"}

InitSanitize ==
  /\ pc = "text"
  /\ text \in SeqsUpTo(TextUnits, MaxTextLen) \cup {Undefined}
  /\ sanitized = <<>>
  /\ resanitized = <<>>
  /\ apiKey = TRUE
  /\ mimeType = "text/plain"
  /\ pageRange = <<>>
  /\ docPages = 0
  /\ opened = "unknown"
  /\ requestedIndices = <<>>
  /\ chunkTasks = <<>>
  /\ settled = <<>>
  /\ wholeCalls = 0
  /\ wholeReply = NoReply
  /\ allItems = EmptyItems
  /\ finalItems = <<>>
  /\ result = <<>>
  /\ result2 = <<>>
  /\ now = 0
  /\ ComponentIdle

Sanitize ==
  /\ pc = "text"
  /\ sanitized' = sanitizeText(text)
  /\ pc' = "sanitized"
  /\ UNCHANGED <<text, resanitized>>
  /\ UNCHANGED <<apiKey, mimeType, pageRange, docPages, opened, requestedIndices,
                 chunkTasks, wholeCalls, wholeReply, allItems, finalItems, result,
                 result2, now, componentVars, settled>>

SanitizeAgain ==
  /\ pc = "sanitized"
  /\ resanitized' = sanitizeText(sanitized)
  /\ pc' = "resanitized"
  /\ UNCHANGED <<text, sanitized>>
  /\ UNCHANGED <<apiKey, mimeType, pageRange, docPages, opened, requestedIndices,
                 chunkTasks, wholeCalls, wholeReply, allItems, finalItems, result,
                 result2, now, componentVars, settled>>

NextSanitize == Sanitize \/ SanitizeAgain

SpecSanitize == InitSanitize /\ [][NextSanitize]_vars

(***************************************************************************)
(* Properties.                                                             *)
(***************************************************************************)
Returned == pc = "done"
Raised == pc = "raised"
Ended == Returned \/ Raised

NoChunkCalls == \A i \in DOMAIN chunkTasks : chunkTasks[i].calls = 0

\* the candidates chunk task t should contribute: those of a well-formed
\* answer, none after a failed call or a null slice
Contribution(t) ==
  IF t.reply.kind = "array" /\ ~Malformed(t.reply) THEN t.reply.items ELSE <<>>

RECURSIVE Contributions(_, _)
Contributions(tasks, n) ==
  IF n = 0 THEN <<>> ELSE Contributions(tasks, n - 1) \o Contribution(tasks[n])

AllTasksDone == \A i \in DOMAIN chunkTasks : chunkTasks[i].state = "done"

\* C1: on the chunked path, once every chunk task has completed, the run goes
\* on to the consolidation (it neither raises nor falls back) and the
\* candidates consolidated are those of the chunks whose call succeeded, in
\* chunk order: a failed call (rejected, no text, no JSON, malformed JSON)
\* contributes nothing and takes nothing away from the other chunks.
C1_FailedChunkContained ==
  (opened = "ok" /\ chunkTasks # <<>> /\ AllTasksDone /\ pc # "join")
    => /\ pc \in {"consolidate", "done"}
       /\ allItems = Iterable(Contributions(chunkTasks, Len(chunkTasks)))

\* every extraction call of the run failed (and there was one)
TotalFailure ==
  \/ /\ chunkTasks # <<>>
     /\ \E i \in DOMAIN chunkTasks : chunkTasks[i].calls > 0
     /\ \A i \in DOMAIN chunkTasks :
          chunkTasks[i].calls > 0 => FailedReply(chunkTasks[i].reply)
  \/ /\ chunkTasks = <<>>
     /\ wholeCalls > 0
     /\ FailedReply(wholeReply)

SomeChunkSucceeded ==
  \E i \in DOMAIN chunkTasks :
    chunkTasks[i].reply.kind = "array" /\ ~Malformed(chunkTasks[i].reply)

\* C2: a run in which every extraction call failed ends by raising to its
\* caller, never by returning a record list; a run in which some chunk's call
\* succeeded ends by returning.
C2_TotalFailureSurfaced ==
  Ended => /\ TotalFailure => Raised
           /\ SomeChunkSucceeded => Returned

\* C3: every chunk of the requested pages has its task, and the run is past
\* the join (falling back, consolidating, ended) only when every chunk task
\* has completed.
C3_ConsolidationAfterJoin ==
  chunkTasks # <<>>
    => /\ DOMAIN chunkTasks = DOMAIN ChunkIndices(requestedIndices)
       /\ pc # "join" => \A i \in DOMAIN chunkTasks : chunkTasks[i].state = "done"

C3_Witness ==
  /\ pc = "consolidate"
  /\ Len(chunkTasks) >= 2
  /\ \A i \in DOMAIN chunkTasks : chunkTasks[i].reply.kind = "array"
  /\ Len(allItems.items) >= 2

\* C4 as stated: when the document could not be opened, a run that has ended
\* issued exactly one whole-document call and no per-chunk call.
C4_ExactlyOneFallbackCall ==
  (opened = "failed" /\ Ended) => wholeCalls = 1 /\ NoChunkCalls

\* C4 amended: when the document could not be opened, no per-chunk call is
\* issued and at most one whole-document call: exactly one once the file is
\* encoded for the fallback, none when the encoding fails (the run raises).
C4_AtMostOneFallbackCall ==
  opened = "failed"
    => /\ NoChunkCalls
       /\ wholeCalls <= 1
       /\ pc \in {"fallback_call", "consolidate", "done"} => wholeCalls = 1
       /\ wholeCalls = 0 => pc \in {"fallback_read", "raised"}

C4_Witness ==
  /\ opened = "failed"
  /\ Returned
  /\ wholeCalls = 1
  /\ FailedReply(wholeReply)

C6_RunEventuallyReturns ==
  (chunkTasks # <<>>
     /\ \A i \in DOMAIN chunkTasks : chunkTasks[i].state \in {"done", "hung"})
    => Ended \/ ENABLED Next

\* the range expression names no page of the document
NoPagesSelected == parsePageRange(pageRange, docPages) = <<>>

\* C7 as stated (for a run that has its API key): for a PDF whose range
\* expression is empty or names no page, no extraction call is ever issued
\* and the run does not raise; it returns no record.
C7_NoPagesNoCall ==
  (apiKey /\ mimeType = "application/pdf" /\ NoPagesSelected)
    => /\ ~Raised
       /\ wholeCalls = 0
       /\ NoChunkCalls
       /\ Returned => result = <<>>

\* C7 amended: for a PDF that opens, a range expression that is not blank
\* and names no page makes the run return no record at once, with no
\* extraction call; a blank expression takes the single-call path instead,
\* where the whole document is sent once.
C7_InvalidRangeReturnsEmpty ==
  (apiKey /\ mimeType = "application/pdf" /\ NoPagesSelected)
    => /\ (Trim(pageRange) # <<>> /\ opened = "ok")
            => /\ Returned
               /\ result = <<>>
               /\ wholeCalls = 0
               /\ chunkTasks = <<>>
       /\ Trim(pageRange) = <<>>
            => /\ opened = "unknown"
               /\ chunkTasks = <<>>
               /\ pc \in {"single_call", "consolidate", "done"} => wholeCalls = 1

C7_Witness ==
  /\ mimeType = "application/pdf"
  /\ pageRange = <<"9">>
  /\ opened = "ok"
  /\ Returned
  /\ result = <<>>
  /\ wholeCalls = 0

\* the schema fields the claim compares
StandardsAndUnits(records) ==
  [p \in DOMAIN records |-> <<records[p].standard, records[p].unit>>]

\* C8: consolidating the records of a consolidation gives the same records
\* again (the same standards and units, as many, in the same order).
C8_ConsolidationIdempotent ==
  pc = "twice" => StandardsAndUnits(result2) = StandardsAndUnits(result)

\* a coded and an uncoded candidate of the same key that both pass the filters
CodedAndUncoded(c, u) ==
  /\ HasCode(CleanStd(c))
  /\ ~HasCode(CleanStd(u))
  /\ CleanBody(c) = CleanBody(u)
  /\ PassesFilters(c)
  /\ PassesFilters(u)

\* C9: for a coded and an uncoded candidate of the same key that both pass
\* the filters, in either order, the uncoded one is not among the records
\* kept and the record kept for the key carries a code; when the two are the
\* whole candidate list the output is the coded one alone.
C9_CodedVersionRetained ==
  pc = "once"
    => \A i, j \in DOMAIN allItems.items :
         CodedAndUncoded(allItems.items[i], allItems.items[j])
           => /\ Len(result) = Len(finalItems)
              /\ ~InSeq(allItems.items[j], finalItems)
              /\ \E p \in DOMAIN result :
                   /\ CleanBody(finalItems[p]) = CleanBody(allItems.items[i])
                   /\ result[p].standard = sanitizeText(finalItems[p].standard)
                   /\ HasCode(result[p].standard)
              /\ Len(allItems.items) = 2
                   => /\ Len(result) = 1
                      /\ AsCandidate(result[1])
                           = AsCandidate(Finalize(allItems.items[i], 0, now))

C9_Witness ==
  /\ pc = "once"
  /\ Len(allItems.items) = 2
  /\ CodedAndUncoded(allItems.items[2], allItems.items[1])
  /\ Len(result) = 1
  /\ HasCode(result[1].standard)

\* C10: the indices parsePageRange returns lie in 0 .. totalPages - 1 and
\* are strictly ascending (so no index is there twice).
C10_IndicesInBoundsAscending ==
  pc = "parsed"
    => /\ \A i \in DOMAIN requestedIndices :
            0 <= requestedIndices[i] /\ requestedIndices[i] < docPages
       /\ \A i, j \in DOMAIN requestedIndices :
            i < j => requestedIndices[i] < requestedIndices[j]

C10_Witness ==
  /\ pc = "parsed"
  /\ Len(requestedIndices) >= 2
  /\ AddParts(<<>>, SplitCommaWs(pageRange, <<>>), docPages) # requestedIndices

\* the set of the elements of a sequence
Range(s) == { s[i] : i \in DOMAIN s }

\* the tokens of a range expression: the pieces that are not empty
Tokens(rangeStr) == SelectSeq(SplitCommaWs(rangeStr, <<>>), LAMBDA t : t # <<>>)

\* the two ends of a range token "a-b", as parseInt reads them
Ends(t) == <<parseInt(SplitDash(t, <<>>)[1]), parseInt(SplitDash(t, <<>>)[2])>>

BothEndsParse(t) == InSeq("-", t) /\ ~Ends(t)[1].nan /\ ~Ends(t)[2].nan

\* the 0-based indices of the pages of the document that lie between the two
\* ends of the range token t, whichever end is the larger
RangePages(t, totalPages) ==
  LET a == Ends(t)[1].val
      b == Ends(t)[2].val
  IN { q - 1 : q \in { r \in 1..totalPages : (a <= r /\ r <= b) \/ (b <= r /\ r <= a) } }

\* the token "b-a" of a range token "a-b"
Reversed(t) == SplitDash(t, <<>>)[2] \o <<"-">> \o SplitDash(t, <<>>)[1]

\* C11: every range token "a-b" whose two ends parse contributes exactly the
\* indices p - 1 of the pages p of the document between its two ends: they
\* are all in the result, they are the whole result when the token is the
\* whole expression, and the reversed token "b-a" gives the same result;
\* "1, 3-5" read against 10 pages gives 0, 2, 3, 4.
C11_RangeTokenPages ==
  pc = "parsed"
    => /\ \A i \in DOMAIN Tokens(pageRange) :
            LET t == Tokens(pageRange)[i]
            IN BothEndsParse(t)
                 => /\ RangePages(t, docPages) \subseteq Range(requestedIndices)
                    /\ Len(Tokens(pageRange)) = 1
                         => /\ Range(requestedIndices) = RangePages(t, docPages)
                            /\ Len(SplitDash(t, <<>>)) = 2
                                 => parsePageRange(Reversed(t), docPages) = requestedIndices
       /\ (pageRange = <<"1", ",", " ", "3", "-", "5">> /\ docPages = 10)
            => requestedIndices = <<0, 2, 3, 4>>

\* "13-0" against three pages: reversed, and clamped at both ends
C11_Witness ==
  /\ pc = "parsed"
  /\ pageRange = <<"1", "3", "-", "0">>
  /\ docPages = 3
  /\ requestedIndices = <<0, 1, 2>>

\* a token that names no page: a range with an end that does not parse, a
\* single number that does not parse or lies outside 1..totalPages
InvalidToken(t, totalPages) ==
  IF InSeq("-", t) THEN ~BothEndsParse(t)
  ELSE parseInt(t).nan \/ parseInt(t).val < 1 \/ parseInt(t).val > totalPages

\* what one token contributes on its own
TokenPages(t, totalPages) ==
  IF InvalidToken(t, totalPages) THEN {}
  ELSE IF InSeq("-", t) THEN RangePages(t, totalPages)
  ELSE { parseInt(t).val - 1 }

\* C12: the result of parsePageRange (which has no statement that can throw:
\* every expression is parsed to the end) is the union of what the tokens
\* contribute one by one, where an invalid token contributes nothing; "0, 99"
\* read against 10 pages gives no index.
C12_MalformedTokensSkipped ==
  pc = "parsed"
    => /\ Range(requestedIndices)
            = UNION { TokenPages(Tokens(pageRange)[i], docPages) :
                        i \in DOMAIN Tokens(pageRange) }
       /\ (pageRange = <<"0", ",", " ", "9", "9">> /\ docPages = 10)
            => requestedIndices = <<>>

\* "1-,3" against three pages: a range without its end, and a valid page
C12_Witness ==
  /\ pc = "parsed"
  /\ pageRange = <<"1", "-", ",", "3">>
  /\ docPages = 3
  /\ InvalidToken(Tokens(pageRange)[1], docPages)
  /\ requestedIndices = <<2>>

\* the index lists of the chunk tasks up to task n, one after the other
RECURSIVE ChunksInOrder(_, _)
ChunksInOrder(tasks, n) ==
  IF n = 0 THEN <<>> ELSE ChunksInOrder(tasks, n - 1) \o tasks[n].indices

\* C13: the chunks, one after the other in chunk order, are the index list
\* itself; every chunk has between 1 and CHUNK_SIZE indices, and every chunk
\* but the last has CHUNK_SIZE.
C13_ChunksPartitionIndices ==
  pc = "chunked"
    => /\ ChunksInOrder(chunkTasks, Len(chunkTasks)) = requestedIndices
       /\ \A k \in DOMAIN chunkTasks :
            /\ Len(chunkTasks[k].indices) >= 1
            /\ Len(chunkTasks[k].indices) <= CHUNK_SIZE
            /\ k < Len(chunkTasks) => Len(chunkTasks[k].indices) = CHUNK_SIZE

\* seven indices: two full chunks and a last one of a single index
C13_Witness ==
  /\ pc = "chunked"
  /\ Len(requestedIndices) = 7
  /\ Len(chunkTasks) = 3
  /\ chunkTasks[3].indices = <<6>>

\* C14: a chunk whose slice is null has issued no extraction call, has got
\* no answer and has completed with an empty result; a chunk that has issued
\* its call (one at most) has its slice, and the slicer gives null for an
\* empty index list.
C14_NullSliceNoCall ==
  /\ \A i \in DOMAIN chunkTasks :
       /\ chunkTasks[i].sliced = "null"
            => /\ chunkTasks[i].calls = 0
               /\ chunkTasks[i].reply = NoReply
               /\ chunkTasks[i].state = "done"
               /\ chunkTasks[i].value = Iterable(<<>>)
       /\ chunkTasks[i].calls > 0
            => chunkTasks[i].calls = 1 /\ chunkTasks[i].sliced = "base64"
       /\ chunkTasks[i].reply # NoReply => chunkTasks[i].sliced = "base64"
  /\ \A readable \in BOOLEAN : extractPdfPagesByIndices(<<>>, readable) = "null"

\* one chunk without a slice beside one that got its slice and was answered
C14_Witness ==
  /\ pc = "join"
  /\ \E i, j \in DOMAIN chunkTasks :
       /\ chunkTasks[i].sliced = "null"
       /\ chunkTasks[i].state = "done"
       /\ chunkTasks[j].sliced = "base64"
       /\ chunkTasks[j].reply.kind = "array"
       /\ Len(chunkTasks[j].value.items) > 0

\* the records of the plan data that the pipeline returned
FinalRecords(plans) == SelectSeq(plans, LAMBDA r : r.id[1] = "file-gen")

\* C15: no two of the records the pipeline has returned, in one run or in
\* two, carry the same id.
C15_IdsUnique ==
  \A p, q \in DOMAIN FinalRecords(planData.teachingPlans) :
    p # q => FinalRecords(planData.teachingPlans)[p].id
               # FinalRecords(planData.teachingPlans)[q].id

\* the plan extraction of the analysis just reported did not succeed
ExtractionFailed == extraction \in {"raised", "failed"}

\* C16: an analysis whose plan extraction failed is not reported with the
\* message of an extraction that succeeded and found no standard.
C16_FailureDistinguished ==
  (pc = "idle" /\ ExtractionFailed) => message.plans # NoneAdded

\* C17: sanitizing a sanitized text changes nothing.
C17_SanitizeIdempotent ==
  pc = "resanitized" => resanitized = sanitized

\* a text with both corrupted renderings, twice each, which the first pass
\* changed
C17_Witness ==
  /\ pc = "resanitized"
  /\ text = <<"a", "ae_jamo", "HWDOT", "HWDOT">>
  /\ sanitized = <<"MIDDOT", "MIDDOT", "MIDDOT">>
  /\ resanitized = sanitized

\* C18: no candidate whose standard text, trimmed and without one leading
\* marker, has fewer than 10 characters is among the records kept, with or
\* without a code or a sentence ending, and every record kept has 10 or
\* more; the coded sentence and the nine-character noun phrase together
\* give one record, the coded sentence.
C18_ShortStandardDropped ==
  pc = "once"
    => /\ Len(result) = Len(finalItems)
       /\ \A p \in DOMAIN finalItems : Len(CleanStd(finalItems[p])) >= 10
       /\ \A i \in DOMAIN allItems.items :
            Len(CleanStd(allItems.items[i])) < 10 => ~InSeq(allItems.items[i], finalItems)
       /\ allItems.items = << Item(UnitNumbers, Code9 \o <<" ">> \o Law),
                              Item(UnitNumbers, Equation) >>
            => /\ Len(result) = 1
               /\ result[1].standard = Code9 \o <<" ">> \o Law

\* a short candidate with a code and a sentence ending, dropped beside a
\* standard that is kept
C18_Witness ==
  /\ pc = "once"
  /\ allItems.items = << Item(UnitNumbers, ShortCoded), Item(UnitNumbers, Law) >>
  /\ finalItems = << Item(UnitNumbers, Law) >>
  /\ Len(result) = 1

\* C19: every record kept has a body (the standard text after the cleanup,
\* without its bracketed codes) of 10 characters or more.
C19_ShortBodyDropped ==
  pc = "once" => \A p \in DOMAIN finalItems : Len(BodyText(finalItems[p])) >= 10

\* the candidates of the list that pass the filters with the key of item i
SharingKey(items, i) ==
  { j \in DOMAIN items :
      CleanBody(items[j]) = CleanBody(items[i]) /\ PassesFilters(items[j]) }

\* the least element of a set of numbers that is not empty
Least(S) == CHOOSE x \in S : \A y \in S : x <= y

\* the candidate the claim says is retained for the key of item i
Retained(items, i) ==
  LET coded == { j \in SharingKey(items, i) : HasCode(CleanStd(items[j])) }
  IN IF coded # {} THEN items[Least(coded)] ELSE items[Least(SharingKey(items, i))]

\* C20: for every candidate that passes the filters, the records kept hold
\* exactly one record of its key, and it is the first candidate of that key
\* carrying a code if there is one, otherwise the first candidate of the key.
C20_FirstCodedRetained ==
  pc = "once"
    => \A i \in DOMAIN allItems.items :
         PassesFilters(allItems.items[i])
           => \E p \in DOMAIN finalItems :
                /\ finalItems[p] = Retained(allItems.items, i)
                /\ \A q \in DOMAIN finalItems :
                     CleanBody(finalItems[q]) = CleanBody(allItems.items[i]) => q = p

\* an uncoded candidate, then two coded ones of the same key: the first
\* coded one is kept
C20_Witness ==
  /\ pc = "once"
  /\ allItems.items = << Item(UnitNumbers, Law),
                         Item(UnitNumbers, <<" ">> \o Code9 \o Law \o <<" ">>),
                         Item(UnitNumbers, Code9 \o <<" ">> \o Law) >>
  /\ finalItems = << Item(UnitNumbers, <<" ">> \o Code9 \o Law \o <<" ">>) >>

\* the position in the list of the first candidate that passes the filters
\* with the given key
FirstAccepted(items, key) ==
  Least({ j \in DOMAIN items : CleanBody(items[j]) = key /\ PassesFilters(items[j]) })

\* C21: the records returned are the records kept, position by position,
\* and the records kept stand in the order in which the first accepted
\* candidates of their keys stand in the candidate list (a replacing record
\* stands where the record it replaced stood).
C21_OutputInFirstAcceptedOrder ==
  pc = "once"
    => /\ Len(result) = Len(finalItems)
       /\ \A p \in DOMAIN finalItems : result[p] = Finalize(finalItems[p], p - 1, now)
       /\ \A p, q \in DOMAIN finalItems :
            p < q => FirstAccepted(allItems.items, CleanBody(finalItems[p]))
                       < FirstAccepted(allItems.items, CleanBody(finalItems[q]))

\* the coded sentence comes third and replaces the uncoded one at the head,
\* before the noun phrase that came second
C21_Witness ==
  /\ pc = "once"
  /\ allItems.items = << Item(UnitNumbers, Law), Item(UnitNumbers, NounPhrase),
                         Item(UnitNumbers, Code9 \o <<" ">> \o Law) >>
  /\ finalItems = << Item(UnitNumbers, Code9 \o <<" ">> \o Law),
                      Item(UnitNumbers, NounPhrase) >>
  /\ result[2].standard = NounPhrase

\* no code, neither ending, and a key of fewer than 5 characters
ShapeRejected(item) ==
  /\ ~HasCode(CleanStd(item))
  /\ ~EndsWithDa(BodyText(item))
  /\ ~EndsWithNoun(BodyText(item))
  /\ Len(CleanBody(item)) < 5

TextFields == {"unit", "standard", "element", "teachingMethod", "notes"}

\* C23: in every record returned each of the five text fields is a string,
\* the empty one when the field of the candidate was absent or empty, and
\* holds neither the two-unit artifact nor a halfwidth middle dot.
C23_FieldsSanitized ==
  pc = "once"
    => \A p \in DOMAIN result : \A f \in TextFields :
         /\ result[p][f] # Undefined
         /\ ~InSeq("HWDOT", result[p][f])
         /\ ~Includes(result[p][f], <<"a", "ae_jamo">>)
         /\ finalItems[p][f] \in {Undefined, <<>>} => result[p][f] = <<>>

\* a record whose standard held the artifact, whose element held a halfwidth
\* dot and whose teaching method was absent
C23_Witness ==
  /\ pc = "once"
  /\ finalItems = << Item(UnitNumbers, Artifact) >>
  /\ finalItems[1].teachingMethod = Undefined
  /\ InSeq("HWDOT", finalItems[1].element)
  /\ result[1].teachingMethod = <<>>
  /\ result[1].standard
       = <<"ji", "su", "MIDDOT", "beop", "chik", "i", "hae", "han", "da">>

\* the records the service answered the call of chunk task t with
Answer(t) == IF t.reply.kind = "array" THEN t.reply.items ELSE <<>>

\* the answers of the chunks up to chunk n, in the order of the chunks
RECURSIVE InDispatchOrder(_, _)
InDispatchOrder(tasks, n) ==
  IF n = 0 THEN <<>> ELSE InDispatchOrder(tasks, n - 1) \o Answer(tasks[n])

\* C24: whatever the order in which the chunk tasks completed, the
\* candidates consolidated after the join are the answers of the chunks in
\* the order of the chunks, each answer in the order the service gave it
\* (after a fallback they are the answer to the fallback call), and the
\* records returned are the consolidation of exactly those.
C24_MergeInDispatchOrder ==
  (opened = "ok" /\ chunkTasks # <<>> /\ pc \in {"consolidate", "done"})
    => /\ (wholeCalls = 0)
            => allItems = Iterable(InDispatchOrder(chunkTasks, Len(chunkTasks)))
       /\ (wholeCalls > 0) => allItems = analyzeChunk(wholeReply)
       /\ (pc = "done") => result = FinalizeAll(Deduplicate(allItems.items), now)

\* the second chunk completed first, and the candidates of the first chunk
\* still come first
C24_Witness ==
  /\ pc = "done"
  /\ wholeCalls = 0
  /\ settled = <<2, 1>>
  /\ chunkTasks[1].reply.items = << Item(UnitNumbers, Code9 \o <<" ">> \o Law),
                                    Item(UnitNumbers, NounPhrase) >>
  /\ chunkTasks[2].reply.items = << Item(UnitNumbers, Law) >>
  /\ allItems.items = chunkTasks[1].reply.items \o chunkTasks[2].reply.items
  /\ Len(result) = 2

\* C25: either exactly one whole-document call was issued and no chunk call,
\* or no whole-document call and at most one call for each chunk.
C25_CallsExclusive ==
  \/ wholeCalls = 1 /\ NoChunkCalls
  \/ wholeCalls = 0 /\ \A i \in DOMAIN chunkTasks : chunkTasks[i].calls <= 1

\* C26: no two of the records returned have the same key (the standard
\* text without its bracketed codes and without white space).
C26_OutputKeysDistinct ==
  pc = "once"
    => \A p, q \in DOMAIN result :
         p # q => StripWs(RemoveCodes(result[p].standard))
                    # StripWs(RemoveCodes(result[q].standard))

\* C27: every record kept, and every record returned, has a key that is
\* not empty: a standard that is only a bracketed code is not returned.
C27_KeyNotEmpty ==
  pc = "once"
    => \A p \in DOMAIN result :
         /\ CleanBody(finalItems[p]) # <<>>
         /\ StripWs(RemoveCodes(result[p].standard)) # <<>>

\* C28: a row added by another handler while the analysis was awaited is
\* still in the plan data when the analysis has applied its results.
C28_NoLostUpdate ==
  (pc = "idle" /\ edited)
    => \E p \in DOMAIN planData.teachingPlans :
         planData.teachingPlans[p].id[1] = "row"

\* both service calls of the analysis have settled
BothSettled == newPlans.state # "pending" /\ stdResult.state # "pending"

\* C29: isAnalyzing is true only while an analysis is under way, it is false
\* whenever no analysis is under way, and once both service calls have
\* settled it becomes false, whatever the two calls gave.
C29_IsAnalyzingReset ==
  /\ [](isAnalyzing <=> pc = "analyzing")
  /\ ((isAnalyzing /\ BothSettled) ~> ~isAnalyzing)

\* an analysis whose two calls both rejected has ended, isAnalyzing false
C29_Witness ==
  /\ pc = "idle"
  /\ runs > 0
  /\ newPlans.state = Null.state
  /\ stdResult.state = Null.state
  /\ message.plans = NoneAdded
  /\ ~isAnalyzing

\* s is the beginning of t
IsPrefix(s, t) == Len(s) <= Len(t) /\ SubSeq(t, 1, Len(s)) = s

\* C30: when the analysis applies its results, the plans of a plan task
\* that gave records are appended whatever the standards task gave, the
\* levels of a standards task that gave levels are written whatever the
\* plan task gave, and every teaching plan of the plan data stays.
C30_TasksIndependent ==
  [][(pc = "analyzing" /\ pc' = "idle")
       => /\ HasNewPlans
               => /\ Len(planData'.teachingPlans) >= Len(newPlans.value)
                  /\ SubSeq(planData'.teachingPlans,
                            Len(planData'.teachingPlans) - Len(newPlans.value) + 1,
                            Len(planData'.teachingPlans)) = newPlans.value
          /\ HasLevels => planData'.achievementStandards = "analysed"
          /\ IsPrefix(planData.teachingPlans, planData'.teachingPlans)]_vars

\* the first two parts of C30 alone
ResultsAppliedIndependently ==
  [][(pc = "analyzing" /\ pc' = "idle")
       => /\ HasNewPlans
               => /\ Len(planData'.teachingPlans) >= Len(newPlans.value)
                  /\ SubSeq(planData'.teachingPlans,
                            Len(planData'.teachingPlans) - Len(newPlans.value) + 1,
                            Len(planData'.teachingPlans)) = newPlans.value
          /\ HasLevels => planData'.achievementStandards = "analysed"
          /\ IsPrefix(data.teachingPlans, planData'.teachingPlans)]_vars

====
